---- MODULE Spec2Model ----
(***************************************************************************)
(* Model of src/python/main.py: one run of main(), which drives a node     *)
(* over RPC, then reconciles the confirmed transaction (fee, first input,  *)
(* recipient and change outputs) and writes the ten-line report out.txt.   *)
(*                                                                         *)
(* Amounts are counted in half coins: 40 is 20 coins,                      *)
(* 59 is 29.5 coins.  Every modelled amount is therefore a dyadic          *)
(* rational, exactly representable whether the RPC client hands out        *)
(* decimal.Decimal or binary float, so the sums below are exact for both.  *)
(* A Python number is a record [kind, v]: kind "int" for a Python int      *)
(* (the literals 0 of the program), kind "num" for a JSON number of the    *)
(* node, whose Python type (float or Decimal) is decided by the RPC client *)
(* library and is an input of the run.                                     *)
(***************************************************************************)
EXTENDS Integers, Sequences, FiniteSets, TLC

VARIABLES
    pc,                     \* position of main(): the statement about to run
    err,                    \* "none", or which except clause ended the run
    file,                   \* out.txt: the sequence of its lines
    decoded_tx,             \* main.decoded_tx
    trader_receive_address, \* main.trader_receive_address
    fee,                    \* main.fee
    input_address,          \* main.input_address
    input_amount,           \* main.input_amount
    change_address,         \* main.change_address
    change_amount,          \* main.change_amount
    trader_amount           \* main.trader_amount

vars == <<pc, err, file, decoded_tx, trader_receive_address, fee, input_address,
          input_amount, change_address, change_amount, trader_amount>>

----------------------------------------------------------------------------
(* Bounds of the model *)

\* longest input list of the reconciled transaction
MaxIn == 2
\* longest output list of the reconciled transaction
MaxOut == 3

----------------------------------------------------------------------------
(* Python numbers *)

PyInt(n) == [kind |-> "int", v |-> n]
Num(n) == [kind |-> "num", v |-> n]

\* a + b and a - b: int with int stays int, anything else is the node's type
PyAdd(a, b) ==
    [kind |-> IF a.kind = "int" /\ b.kind = "int" THEN "int" ELSE "num",
     v |-> a.v + b.v]
PySub(a, b) ==
    [kind |-> IF a.kind = "int" /\ b.kind = "int" THEN "int" ELSE "num",
     v |-> a.v - b.v]

\* a whole number of coins (an even number of half coins); an int always is
IsWhole(a) == a.kind = "int" \/ a.v % 2 = 0

----------------------------------------------------------------------------
(* The node: the transactions it can serve, and the one it confirms *)

Output(val, addrs) == [value |-> Num(val), addresses |-> addrs]

\* The earlier transactions of the chain, as getrawtransaction followed by
\* decoderawtransaction returns them.  addresses = << >> stands for a
\* scriptPubKey without the key 'addresses'.  "T3" is an id the node does
\* not know.
Ledger ==
    [t \in {"T1", "T2"} |->
        IF t = "T1"
        THEN <<Output(100, <<"M">>), Output(7, << >>)>>
        ELSE <<Output(25, <<"N", "M">>)>>]

\* an input: the id of an earlier transaction and a 0-based output index
Inputs ==
    { [txid |-> "T1", vout |-> 0],    \* resolves: 50 coins of M
      [txid |-> "T2", vout |-> 0],    \* resolves: 12.5 coins, addresses N, M
      [txid |-> "T1", vout |-> 1],    \* an output without addresses
      [txid |-> "T2", vout |-> 1],    \* no such output index
      [txid |-> "T3", vout |-> 0] }   \* no such transaction

Outputs ==
    { Output(40, <<"T">>),            \* 20 coins to the trader
      Output(19, <<"D", "T">>),       \* 9.5 coins, trader is the 2nd address
      Output(59, <<"C">>),            \* 29.5 coins to C
      Output(60, <<"D", "C">>),       \* 30 coins, first address D
      Output(1, << >>) }              \* 0.5 coins, no addresses

SeqsUpTo(S, n) == UNION { [1..k -> S] : k \in 0..n }

Transactions ==
    { [vin |-> i, vout |-> o] : i \in SeqsUpTo(Inputs, MaxIn),
                                o \in SeqsUpTo(Outputs, MaxOut) }

NoTx == [vin |-> << >>, vout |-> << >>]

----------------------------------------------------------------------------
(* Resolution of an input, lines 114-116 and 125-127 *)

NoOutput == [value |-> PyInt(0), addresses |-> << >>]

\* client.getrawtransaction and decoderawtransaction of vin['txid'], then
\* ['vout'][vin['vout']]: JSONRPCException for an unknown id, IndexError
\* for an index past the end of the list.
PrevOutput(vin) ==
    IF vin.txid \notin DOMAIN Ledger
    THEN [err |-> "rpc", out |-> NoOutput]
    ELSE IF vin.vout + 1 > Len(Ledger[vin.txid])
    THEN [err |-> "generic", out |-> NoOutput]
    ELSE [err |-> "none", out |-> Ledger[vin.txid][vin.vout + 1]]

----------------------------------------------------------------------------
(* calculate_transaction_fee *)

\* the loop over decoded_tx['vin'], from input i on, total_input = acc
RECURSIVE SumInputsFrom(_, _, _)
SumInputsFrom(vins, i, acc) ==
    IF i > Len(vins)
    THEN [err |-> "none", val |-> acc]
    ELSE LET r == PrevOutput(vins[i]) IN
         IF r.err # "none"
         THEN [err |-> r.err, val |-> acc]
         ELSE SumInputsFrom(vins, i + 1, PyAdd(acc, r.out.value))

\* sum(vout['value'] for vout in decoded_tx['vout']), which starts at int 0
RECURSIVE SumOutputsFrom(_, _, _)
SumOutputsFrom(vouts, i, acc) ==
    IF i > Len(vouts)
    THEN acc
    ELSE SumOutputsFrom(vouts, i + 1, PyAdd(acc, vouts[i].value))

total_output(tx) == SumOutputsFrom(tx.vout, 1, PyInt(0))

\* Mutant: total_input = value in place of total_input += value.
RECURSIVE LastInputFrom(_, _, _)
LastInputFrom(vins, i, acc) ==
    IF i > Len(vins)
    THEN [err |-> "none", val |-> acc]
    ELSE LET r == PrevOutput(vins[i]) IN
         IF r.err # "none"
         THEN [err |-> r.err, val |-> acc]
         ELSE LastInputFrom(vins, i + 1, r.out.value)

calculate_transaction_fee_last_input(tx) ==
    LET total_input == LastInputFrom(tx.vin, 1, PyInt(0)) IN
    IF total_input.err # "none"
    THEN [err |-> total_input.err, val |-> PyInt(0)]
    ELSE [err |-> "none", val |-> PySub(total_output(tx), total_input.val)]

calculate_transaction_fee(tx) ==
    LET total_input == SumInputsFrom(tx.vin, 1, PyInt(0)) IN
    IF total_input.err # "none"
    THEN [err |-> total_input.err, val |-> PyInt(0)]
    ELSE [err |-> "none", val |-> PySub(total_output(tx), total_input.val)]

----------------------------------------------------------------------------
(* extract_input_details *)

\* Mutant: an output without addresses yields the empty address.
extract_input_details_no_address(tx) ==
    IF Len(tx.vin) = 0
    THEN [err |-> "generic", address |-> "", amount |-> PyInt(0)]
    ELSE LET r == PrevOutput(tx.vin[1]) IN
         IF r.err # "none"
         THEN [err |-> r.err, address |-> "", amount |-> PyInt(0)]
         ELSE [err |-> "none",
               address |-> IF r.out.addresses = << >> THEN ""
                           ELSE r.out.addresses[1],
               amount |-> r.out.value]

extract_input_details(tx) ==
    IF Len(tx.vin) = 0
    THEN [err |-> "generic", address |-> "", amount |-> PyInt(0)]
    ELSE LET r == PrevOutput(tx.vin[1]) IN
         IF r.err # "none"
         THEN [err |-> r.err, address |-> "", amount |-> PyInt(0)]
         ELSE IF r.out.addresses = << >>
         THEN [err |-> "generic", address |-> "", amount |-> PyInt(0)]
         ELSE [err |-> "none", address |-> r.out.addresses[1],
               amount |-> r.out.value]

----------------------------------------------------------------------------
(* extract_output_details *)

\* x in s, for a Python list s
InList(x, s) == \E k \in 1..Len(s) : s[k] = x

\* Mutant: the trader is looked for in the first address only.
ClassifyStepFirstAddress(st, vout, trader_address) ==
    IF vout.addresses = << >>
    THEN st
    ELSE IF trader_address = vout.addresses[1]
    THEN [st EXCEPT !.trader_amount = vout.value]
    ELSE [st EXCEPT !.change_address = vout.addresses[1],
                    !.change_amount = vout.value]

\* Mutant: an output without addresses is taken for change.
ClassifyStepAddressless(st, vout, trader_address) ==
    IF InList(trader_address, vout.addresses)
    THEN [st EXCEPT !.trader_amount = vout.value]
    ELSE [st EXCEPT !.change_address =
                        IF vout.addresses = << >> THEN "" ELSE vout.addresses[1],
                    !.change_amount = vout.value]

\* Mutant: the first change output is kept, later ones are ignored.
ClassifyStepFirstChange(st, vout, trader_address) ==
    IF vout.addresses = << >>
    THEN st
    ELSE IF InList(trader_address, vout.addresses)
    THEN [st EXCEPT !.trader_amount = vout.value]
    ELSE IF st.change_address # ""
    THEN st
    ELSE [st EXCEPT !.change_address = vout.addresses[1],
                    !.change_amount = vout.value]

\* one pass of the loop body over vout, st the three locals
ClassifyStep(st, vout, trader_address) ==
    IF vout.addresses = << >>
    THEN st
    ELSE IF InList(trader_address, vout.addresses)
    THEN [st EXCEPT !.trader_amount = vout.value]
    ELSE [st EXCEPT !.change_address = vout.addresses[1],
                    !.change_amount = vout.value]

RECURSIVE ClassifyFrom(_, _, _, _)
ClassifyFrom(vouts, i, st, trader_address) ==
    IF i > Len(vouts)
    THEN st
    ELSE ClassifyFrom(vouts, i + 1, ClassifyStep(st, vouts[i], trader_address),
                      trader_address)

extract_output_details(tx, trader_address) ==
    ClassifyFrom(tx.vout, 1,
                 [trader_amount |-> PyInt(0), change_amount |-> PyInt(0),
                  change_address |-> ""],
                 trader_address)

----------------------------------------------------------------------------
(* Text of a line: the sequence of its tokens, the newline left out *)

\* f"{n}" of a Python int
IntText(n) == IF n < 0 THEN <<"-", ToString(-n)>> ELSE <<ToString(n)>>

Magnitude(n) == IF n < 0 THEN -n ELSE n

\* f"{a}" of a Python number.  A float prints the shortest digits that read
\* back ("20.0", "29.5"); a Decimal parsed from the node's JSON keeps the
\* node's eight decimals through + and - ("20.00000000", "29.50000000").
NumText(a, number) ==
    IF a.kind = "int"
    THEN IntText(a.v)
    ELSE LET m == Magnitude(a.v)
             digits == IF number = "float"
                       THEN (IF m % 2 = 1 THEN "5" ELSE "0")
                       ELSE (IF m % 2 = 1 THEN "50000000" ELSE "00000000")
         IN (IF a.v < 0 THEN <<"-">> ELSE << >>)
            \o <<ToString(m \div 2), ".", digits>>

\* f"{int(a)}": truncation toward zero
TruncText(a) ==
    IF a.kind = "int"
    THEN IntText(a.v)
    ELSE IF a.v < 0 THEN IntText(-(Magnitude(a.v) \div 2))
    ELSE IntText(a.v \div 2)

\* What the interpreter and the RPC client decide: the Python type of the
\* node's JSON numbers, and whether int has the method is_integer (it has
\* from Python 3.12 on; float always has it, Decimal has not).
Runtimes == [number : {"float", "Decimal"}, int_is_integer : BOOLEAN]

HasIsInteger(a, rt) ==
    IF a.kind = "int" THEN rt.int_is_integer ELSE rt.number = "float"

\* lines 173-176 and 178-181: the integer collapse of one amount
CollapsedText(a, rt) ==
    IF IsWhole(a) THEN TruncText(a) ELSE NumText(a, rt.number)

----------------------------------------------------------------------------
(* write_output_file *)

\* Mutant: the change amount and the fee are written in each other's place.
write_output_file_swapped(txid, in_address, in_amount, trader_address, tr_amount, ch_address, ch_amount, tx_fee, block_height, block_hash, rt) ==
    LET head == << <<txid>>, <<in_address>> >>
        mid == head \o << CollapsedText(in_amount, rt), <<trader_address>> >>
        rest == << CollapsedText(tr_amount, rt), <<ch_address>>,
                   NumText(tx_fee, rt.number), NumText(ch_amount, rt.number),
                   NumText(block_height, rt.number), <<block_hash>> >>
    IN  IF ~HasIsInteger(in_amount, rt)
        THEN [err |-> "generic", lines |-> head]
        ELSE IF ~HasIsInteger(tr_amount, rt)
        THEN [err |-> "generic", lines |-> mid]
        ELSE [err |-> "none", lines |-> mid \o rest]

\* The lines f.write has been given when the with block is left, and how it
\* is left: an AttributeError of is_integer leaves it early, and the lines
\* written before it are flushed when the file is closed.
write_output_file(txid, in_address, in_amount, trader_address, tr_amount, ch_address, ch_amount, tx_fee, block_height, block_hash, rt) ==
    LET head == << <<txid>>, <<in_address>> >>
        mid == head \o << CollapsedText(in_amount, rt), <<trader_address>> >>
        rest == << CollapsedText(tr_amount, rt), <<ch_address>>,
                   NumText(ch_amount, rt.number), NumText(tx_fee, rt.number),
                   NumText(block_height, rt.number), <<block_hash>> >>
    IN  IF ~HasIsInteger(in_amount, rt)
        THEN [err |-> "generic", lines |-> head]
        ELSE IF ~HasIsInteger(tr_amount, rt)
        THEN [err |-> "generic", lines |-> mid]
        ELSE [err |-> "none", lines |-> mid \o rest]

----------------------------------------------------------------------------
(* main *)

\* what the node answers in lines 55-77
TraderAddress == "T"
Txid == "TX"
ConfirmBlockHash == "BH"
block_count == 101
\* block_info['height'] on a fresh regtest chain: the 101 blocks and the one
\* that confirms the transaction
BlockHeight == PyInt(block_count + 1)

\* out.txt as an earlier run left it
PreviousContent == << <<"previous">> >>

Init ==
    /\ pc = "setup"
    /\ err = "none"
    /\ file = PreviousContent
    /\ decoded_tx = NoTx
    /\ trader_receive_address = ""
    /\ fee = PyInt(0)
    /\ input_address = ""
    /\ input_amount = PyInt(0)
    /\ change_address = ""
    /\ change_amount = PyInt(0)
    /\ trader_amount = PyInt(0)

\* Lines 10-77: the RPC calls up to getblock.  Any of them may raise
\* JSONRPCException; otherwise the node has confirmed a transaction and
\* decoderawtransaction returns it.
NodeSetup ==
    /\ pc = "setup"
    /\ \E fault \in BOOLEAN :
        IF fault
        THEN /\ pc' = "done"
             /\ err' = "rpc"
             /\ UNCHANGED <<decoded_tx, trader_receive_address>>
        ELSE /\ \E tx \in Transactions : decoded_tx' = tx
             /\ trader_receive_address' = TraderAddress
             /\ pc' = "fee"
             /\ err' = "none"
    /\ UNCHANGED <<file, fee, input_address, input_amount, change_address,
                   change_amount, trader_amount>>

\* Line 80
CalculateFee ==
    /\ pc = "fee"
    /\ LET r == calculate_transaction_fee(decoded_tx) IN
        IF r.err # "none"
        THEN /\ pc' = "done"
             /\ err' = r.err
             /\ UNCHANGED fee
        ELSE /\ pc' = "input"
             /\ fee' = r.val
             /\ UNCHANGED err
    /\ UNCHANGED <<file, decoded_tx, trader_receive_address, input_address,
                   input_amount, change_address, change_amount, trader_amount>>

\* Line 83
ExtractInput ==
    /\ pc = "input"
    /\ LET r == extract_input_details(decoded_tx) IN
        IF r.err # "none"
        THEN /\ pc' = "done"
             /\ err' = r.err
             /\ UNCHANGED <<input_address, input_amount>>
        ELSE /\ pc' = "output"
             /\ input_address' = r.address
             /\ input_amount' = r.amount
             /\ UNCHANGED err
    /\ UNCHANGED <<file, decoded_tx, trader_receive_address, fee,
                   change_address, change_amount, trader_amount>>

\* Lines 86-89
ExtractOutput ==
    /\ pc = "output"
    /\ LET r == extract_output_details(decoded_tx, trader_receive_address) IN
        /\ change_address' = r.change_address
        /\ change_amount' = r.change_amount
        /\ trader_amount' = r.trader_amount
    /\ pc' = "write"
    /\ UNCHANGED <<err, file, decoded_tx, trader_receive_address, fee,
                   input_address, input_amount>>

\* Lines 91-102.  open(output_path, 'w') either fails, and out.txt is left
\* alone, or truncates the file; what the with block wrote is then the file.
WriteOutputFile ==
    /\ pc = "write"
    /\ \E rt \in Runtimes, open_fails \in BOOLEAN :
        IF open_fails
        THEN /\ err' = "generic"
             /\ UNCHANGED file
        ELSE LET w == write_output_file(Txid, input_address, input_amount,
                          trader_receive_address, trader_amount,
                          change_address, change_amount, fee, BlockHeight,
                          ConfirmBlockHash, rt) IN
             /\ file' = w.lines
             /\ err' = w.err
    /\ pc' = "done"
    /\ UNCHANGED <<decoded_tx, trader_receive_address, fee, input_address,
                   input_amount, change_address, change_amount, trader_amount>>

Next ==
    \/ NodeSetup
    \/ CalculateFee
    \/ ExtractInput
    \/ ExtractOutput
    \/ WriteOutputFile

Spec == Init /\ [][Next]_vars

----------------------------------------------------------------------------
(* What the properties are stated with *)

RECURSIVE SumOver(_, _)
SumOver(f, S) ==
    IF S = {} THEN 0
    ELSE LET x == CHOOSE y \in S : TRUE IN f[x] + SumOver(f, S \ {x})

Resolves(vin) ==
    /\ vin.txid \in DOMAIN Ledger
    /\ vin.vout + 1 <= Len(Ledger[vin.txid])
SourceOutput(vin) == Ledger[vin.txid][vin.vout + 1]

InputSum(tx) ==
    SumOver([i \in 1..Len(tx.vin) |-> SourceOutput(tx.vin[i]).value.v],
            1..Len(tx.vin))
OutputSum(tx) ==
    SumOver([i \in 1..Len(tx.vout) |-> tx.vout[i].value.v], 1..Len(tx.vout))

\* the permutations of 1..n, for every length a list of the model can have
AllPerms ==
    [n \in 0..(MaxIn + MaxOut) |->
        { p \in [1..n -> 1..n] : \A i, j \in 1..n : i # j => p[i] # p[j] }]
Perms(n) == AllPerms[n]
Permute(s, p) == [i \in 1..Len(s) |-> s[p[i]]]
Without(s, k) == [i \in 1..(Len(s) - 1) |-> IF i < k THEN s[i] ELSE s[i + 1]]
InsertAt(s, k, x) ==
    [i \in 1..(Len(s) + 1) |-> IF i < k THEN s[i] ELSE IF i = k THEN x ELSE s[i - 1]]

\* indices of the outputs that carry the recipient address, of the other
\* outputs with an address, and of the outputs without one
RecipientOutputs(tx) ==
    { i \in 1..Len(tx.vout) : InList(TraderAddress, tx.vout[i].addresses) }
OtherAddressed(tx) ==
    { i \in 1..Len(tx.vout) : tx.vout[i].addresses # << >> } \ RecipientOutputs(tx)
Addressless(tx) == { i \in 1..Len(tx.vout) : tx.vout[i].addresses = << >> }
Last(S) == CHOOSE i \in S : \A j \in S : j <= i

\* the three locals of main that extract_output_details sets
Classification ==
    [trader_amount |-> trader_amount, change_amount |-> change_amount,
     change_address |-> change_address]

\* main has the fee / has the result of extract_output_details
FeeComputed == pc \in {"input", "output", "write"} \/ (pc = "done" /\ err = "none")
Classified == pc = "write" \/ (pc = "done" /\ err = "none")
Succeeded == pc = "done" /\ err = "none"

\* every way a Python number can appear on a line
Renderings(a) == { NumText(a, "float"), NumText(a, "Decimal"), TruncText(a) }
HasPoint(line) == \E k \in 1..Len(line) : line[k] = "."

----------------------------------------------------------------------------
(* The claims *)

\* C1: once calculate_transaction_fee has returned, the fee is the sum of
\* the resolved input amounts minus the sum of the output values.
C1_FeeIsInputsMinusOutputs ==
    FeeComputed => fee.v = InputSum(decoded_tx) - OutputSum(decoded_tx)

\* C2: a run that ends in an error leaves out.txt as it found it: no
\* partial report.
C2_NoPartialReport ==
    (pc = "done" /\ err # "none") => file = PreviousContent

\* C3: after a successful run out.txt holds exactly ten lines: txid,
\* input_address, input_amount, recipient_address, recipient_amount,
\* change_address, change_amount, fee, block_height, block_hash, and
\* nothing of what it held before.
C3_TenLinesInOrder ==
    Succeeded =>
        /\ Len(file) = 10
        /\ file[1] = <<Txid>>
        /\ file[2] = <<input_address>>
        /\ file[3] \in Renderings(input_amount)
        /\ file[4] = <<trader_receive_address>>
        /\ file[5] \in Renderings(trader_amount)
        /\ file[6] = <<change_address>>
        /\ file[7] \in Renderings(change_amount)
        /\ file[8] \in Renderings(fee)
        /\ file[9] = IntText(BlockHeight.v)
        /\ file[10] = <<ConfirmBlockHash>>
        /\ \A i \in 1..Len(file) : \A j \in 1..Len(PreviousContent) :
              file[i] # PreviousContent[j]
C3_Witness ==
    /\ Succeeded
    /\ Len(file) = 10
    /\ Len(decoded_tx.vout) = 3
    /\ file[7] # file[8]
    /\ file[3] # file[5]

\* C4: input_amount, recipient_amount and change_amount are written
\* without a decimal point when whole and in their own decimal form when
\* not; the fee is written in its own form.
C4_WholeAmountsCollapsed ==
    Succeeded =>
        /\ \A la \in { <<3, input_amount>>, <<5, trader_amount>>,
                       <<7, change_amount>> } :
              IF IsWhole(la[2])
              THEN ~HasPoint(file[la[1]])
              ELSE file[la[1]] \in { NumText(la[2], "float"),
                                     NumText(la[2], "Decimal") }
        /\ file[8] \in { NumText(fee, "float"), NumText(fee, "Decimal") }

\* C5: with exactly one output carrying the recipient address and exactly
\* one other output carrying an address, extract_output_details returns the
\* value of the first, and the first address and the value of the second,
\* whichever comes first.
C5_RecipientAndChange ==
    (Classified /\ Cardinality(RecipientOutputs(decoded_tx)) = 1
                /\ Cardinality(OtherAddressed(decoded_tx)) = 1) =>
        LET r == Last(RecipientOutputs(decoded_tx))
            c == Last(OtherAddressed(decoded_tx))
        IN  /\ trader_amount = decoded_tx.vout[r].value
            /\ change_address = decoded_tx.vout[c].addresses[1]
            /\ change_amount = decoded_tx.vout[c].value
C5_Witness ==
    /\ pc = "write"
    /\ Cardinality(RecipientOutputs(decoded_tx)) = 1
    /\ Cardinality(OtherAddressed(decoded_tx)) = 1
    /\ Last(OtherAddressed(decoded_tx)) < Last(RecipientOutputs(decoded_tx))
    /\ Len(decoded_tx.vout[Last(RecipientOutputs(decoded_tx))].addresses) = 2
    /\ trader_amount.v = 19

\* C6: the input address and amount are the first address and the value of
\* the output the first input refers to, and are what the report holds; a
\* first input whose transaction or output index does not exist, or whose
\* output has no address, ends the run in an error with out.txt untouched.
C6_FirstInputResolved ==
    /\ (pc \in {"output", "write"} \/ Succeeded) =>
          /\ Len(decoded_tx.vin) > 0
          /\ Resolves(decoded_tx.vin[1])
          /\ SourceOutput(decoded_tx.vin[1]).addresses # << >>
          /\ input_address = SourceOutput(decoded_tx.vin[1]).addresses[1]
          /\ input_amount = SourceOutput(decoded_tx.vin[1]).value
    /\ Succeeded =>
          /\ file[2] = <<input_address>>
          /\ file[3] \in Renderings(input_amount)
    /\ (pc = "done" /\ Len(decoded_tx.vin) > 0
          /\ (~Resolves(decoded_tx.vin[1])
              \/ SourceOutput(decoded_tx.vin[1]).addresses = << >>)) =>
          /\ err # "none"
          /\ file = PreviousContent
C6_Witness ==
    /\ Succeeded
    /\ Len(decoded_tx.vin) = 2
    /\ decoded_tx.vin[1] = [txid |-> "T2", vout |-> 0]
    /\ input_address = "N"
    /\ file[3] = <<"12", ".", "5">>

\* C7: a transaction none of whose outputs carries the recipient address
\* does not end in a report written as if the run had succeeded.
C7_MissingRecipientReported ==
    (pc = "done" /\ RecipientOutputs(decoded_tx) = {}) =>
        ~(err = "none" /\ Len(file) = 10)

C9_AddresslessSkipped ==
    Classified =>
        /\ pc = "write" => err = "none"
        /\ \A k \in Addressless(decoded_tx) :
              /\ extract_output_details(
                    [decoded_tx EXCEPT !.vout = Without(decoded_tx.vout, k)],
                    trader_receive_address) = Classification
              /\ Magnitude(fee.v - calculate_transaction_fee(
                    [decoded_tx EXCEPT !.vout = Without(decoded_tx.vout, k)]).val.v)
                 = decoded_tx.vout[k].value.v
        /\ \A k \in 1..(Len(decoded_tx.vout) + 1) :
              \A x \in { o \in Outputs : o.addresses = << >> } :
                 /\ extract_output_details(
                       [decoded_tx EXCEPT !.vout = InsertAt(decoded_tx.vout, k, x)],
                       trader_receive_address) = Classification
                 /\ Magnitude(calculate_transaction_fee(
                       [decoded_tx EXCEPT !.vout = InsertAt(decoded_tx.vout, k, x)]).val.v
                       - fee.v)
                    = x.value.v
C9_Witness ==
    /\ pc = "write"
    /\ Len(decoded_tx.vout) = 3
    /\ Addressless(decoded_tx) = {3}
    /\ RecipientOutputs(decoded_tx) = {1}
    /\ change_address = "C"
    /\ trader_amount.v = 40

\* C10: with more than one addressed output that does not carry the
\* recipient address, the change address and amount are the first address
\* and the value of the last of them; the earlier ones have no effect.
C10_LastChangeWins ==
    (Classified /\ Cardinality(OtherAddressed(decoded_tx)) > 1) =>
        LET c == Last(OtherAddressed(decoded_tx)) IN
        /\ change_address = decoded_tx.vout[c].addresses[1]
        /\ change_amount = decoded_tx.vout[c].value
        /\ \A k \in OtherAddressed(decoded_tx) \ {c} :
              extract_output_details(
                  [decoded_tx EXCEPT !.vout = Without(decoded_tx.vout, k)],
                  trader_receive_address) = Classification
C10_Witness ==
    /\ pc = "write"
    /\ Cardinality(OtherAddressed(decoded_tx)) = 2
    /\ Cardinality(RecipientOutputs(decoded_tx)) = 1
    /\ decoded_tx.vout[1].addresses = <<"C">>
    /\ change_address = "D"
    /\ change_amount.v = 60

====
